---- MODULE Spec2Model ----
(***************************************************************************)
(* Model of helpful.Tempfile (src/helpful.py:579-613): a manager that      *)
(* tracks the temporary files and directories it creates in self.paths     *)
(* and removes them in cleanup(), also on leaving a `with` block.          *)
(*                                                                         *)
(* The host filesystem is part of the state: the set of existing paths,    *)
(* the set of open descriptors, and the set of paths whose removal is      *)
(* refused.  Descriptors are handed out as the kernel does it (lowest      *)
(* free number), so a closed descriptor number can come back.              *)
(***************************************************************************)
EXTENDS Integers, Sequences, FiniteSets, TLC

\* Number of temp paths the model lets the manager create.
MaxCreates == 3

VARIABLES
    paths,        \* self.paths: sequence of handles
    fs,           \* paths that exist on the filesystem
    openFds,      \* descriptors open in the process
    denied,       \* existing paths whose unlink / rmtree is refused
    nextPath,     \* next unique temp name
    inScope,      \* TRUE between __enter__ and __exit__
    scopeCreated, \* paths created since the last __enter__
    bodyErr,      \* the with-body left by raising
    exitCleanups, \* cleanup() calls made by the last __exit__
    lastOp,       \* last operation performed
    lastRaised,   \* the last operation raised
    lastOps,      \* syscalls completed by the last cleanup(), in order
    failedAt,     \* index in self.paths at which the last cleanup() raised, 0 if none
    prevPaths,    \* self.paths before the last operation
    cleaned,      \* paths that were tracked when a cleanup() returned normally
    stuck,        \* some cleanup() raised after having removed a handle
    disturbed     \* the environment interfered (close / remove / permission)

vars == <<paths, fs, openFds, denied, nextPath, inScope, scopeCreated, bodyErr,
          exitCleanups, lastOp, lastRaised, lastOps, failedAt, prevPaths,
          cleaned, stuck, disturbed>>

----------------------------------------------------------------------------
\* Handles: tempfile.mkstemp returns the tuple (fd, path), tempfile.mkdtemp a path.

FileHandle(fd, p) == [kind |-> "file", fd |-> fd, path |-> p]
DirHandle(p) == [kind |-> "dir", fd |-> 0, path |-> p]

\* isinstance(path, tuple)
IsTuple(h) == h.kind = "file"

\* The descriptor number the kernel hands out: the lowest one not open.
LowestFreeFd(o) ==
    CHOOSE n \in 1..(Cardinality(o) + 1) :
        /\ n \notin o
        /\ \A m \in 1..(Cardinality(o) + 1) : m \notin o => n <= m

\* os.close(fd) raises EBADF unless fd is open.
OsCloseRaises(fd, o) == fd \notin o

\* os.unlink(path) / shutil.rmtree(path) raise when the path is missing or
\* its removal is refused.
RemoveRaises(p, f, d) == p \notin f \/ p \in d

Syscall(op, arg, i) == [op |-> op, arg |-> arg, idx |-> i]

----------------------------------------------------------------------------
\* Tempfile.mkstemp / Tempfile.mkdtemp: the append is reached only when the
\* tempfile call returned.

TrackAlways(ps, h, failed) == Append(ps, h)

Track(ps, h, failed) == IF failed THEN ps ELSE Append(ps, h)

----------------------------------------------------------------------------
\* One iteration of the loop in Tempfile.cleanup for a tuple handle:
\* os.close(path[0]) then os.unlink(path[1]).

CleanupFileUnlinkFirst(h, i, f, o, d, log) ==
    IF RemoveRaises(h.path, f, d)
    THEN [raised |-> TRUE, fs |-> f, fds |-> o, ops |-> log]
    ELSE LET f2 == f \ {h.path}
             log2 == Append(log, Syscall("unlink", h.path, i))
         IN  IF OsCloseRaises(h.fd, o)
             THEN [raised |-> TRUE, fs |-> f2, fds |-> o, ops |-> log2]
             ELSE [raised |-> FALSE, fs |-> f2, fds |-> o \ {h.fd},
                   ops |-> Append(log2, Syscall("close", h.fd, i))]

CleanupFileSkipClosed(h, i, f, o, d, log) ==
    LET closing == ~OsCloseRaises(h.fd, o)
        o2 == o \ {h.fd}
        log2 == IF closing THEN Append(log, Syscall("close", h.fd, i)) ELSE log
    IN  IF RemoveRaises(h.path, f, d)
        THEN [raised |-> TRUE, fs |-> f, fds |-> o2, ops |-> log2]
        ELSE [raised |-> FALSE, fs |-> f \ {h.path}, fds |-> o2,
              ops |-> Append(log2, Syscall("unlink", h.path, i))]

CleanupFile(h, i, f, o, d, log) ==
    IF OsCloseRaises(h.fd, o)
    THEN [raised |-> TRUE, fs |-> f, fds |-> o, ops |-> log]
    ELSE LET o2 == o \ {h.fd}
             log2 == Append(log, Syscall("close", h.fd, i))
         IN  IF RemoveRaises(h.path, f, d)
             THEN [raised |-> TRUE, fs |-> f, fds |-> o2, ops |-> log2]
             ELSE [raised |-> FALSE, fs |-> f \ {h.path}, fds |-> o2,
                   ops |-> Append(log2, Syscall("unlink", h.path, i))]

\* ... and for a directory handle: shutil.rmtree(path).
CleanupDir(h, i, f, o, d, log) ==
    IF RemoveRaises(h.path, f, d)
    THEN [raised |-> TRUE, fs |-> f, fds |-> o, ops |-> log]
    ELSE [raised |-> FALSE, fs |-> f \ {h.path}, fds |-> o,
          ops |-> Append(log, Syscall("rmtree", h.path, i))]

CleanupHandleSkipDirs(h, i, f, o, d, log) ==
    IF IsTuple(h) THEN CleanupFile(h, i, f, o, d, log)
                  ELSE [raised |-> FALSE, fs |-> f, fds |-> o, ops |-> log]

CleanupHandle(h, i, f, o, d, log) ==
    IF IsTuple(h) THEN CleanupFile(h, i, f, o, d, log)
                  ELSE CleanupDir(h, i, f, o, d, log)

\* The for loop of Tempfile.cleanup from index i on: an exception leaves the
\* loop (and the method) at once.
RECURSIVE CleanupLoopKeepGoing(_, _, _, _, _, _)
CleanupLoopKeepGoing(ps, i, f, o, d, log) ==
    IF i > Len(ps)
    THEN [failedAt |-> 0, fs |-> f, fds |-> o, ops |-> log]
    ELSE LET r == CleanupHandle(ps[i], i, f, o, d, log)
             rest == CleanupLoopKeepGoing(ps, i + 1, r.fs, r.fds, d, r.ops)
         IN  IF r.raised /\ rest.failedAt = 0
             THEN [rest EXCEPT !.failedAt = i]
             ELSE rest

RECURSIVE CleanupLoopPastEnd(_, _, _, _, _, _)
CleanupLoopPastEnd(ps, i, f, o, d, log) ==
    IF i > Len(ps)
    THEN [failedAt |-> i, fs |-> f, fds |-> o, ops |-> log]
    ELSE LET r == CleanupHandle(ps[i], i, f, o, d, log)
         IN  IF r.raised
             THEN [failedAt |-> i, fs |-> r.fs, fds |-> r.fds, ops |-> r.ops]
             ELSE CleanupLoopPastEnd(ps, i + 1, r.fs, r.fds, d, r.ops)

RECURSIVE CleanupLoop(_, _, _, _, _, _)
CleanupLoop(ps, i, f, o, d, log) ==
    IF i > Len(ps)
    THEN [failedAt |-> 0, fs |-> f, fds |-> o, ops |-> log]
    ELSE LET r == CleanupHandle(ps[i], i, f, o, d, log)
         IN  IF r.raised
             THEN [failedAt |-> i, fs |-> r.fs, fds |-> r.fds, ops |-> r.ops]
             ELSE CleanupLoop(ps, i + 1, r.fs, r.fds, d, r.ops)

\* self.paths = [] is the statement after the loop: it runs only when the
\* loop ended without an exception.
PathsAfterCleanupFinally(ps, raised) == <<>>

PathsAfterCleanupKept(ps, raised) == ps

PathsAfterCleanupPopFirst(ps, raised) ==
    IF raised \/ ps = <<>> THEN ps ELSE Tail(ps)

PathsAfterCleanup(ps, raised) == IF raised THEN ps ELSE <<>>

\* Tempfile.__exit__ calls self.cleanup() whatever (type, value, traceback) is.
ExitCleanupCallsOnlyOnSuccess(raisedInBody) == IF raisedInBody THEN 0 ELSE 1

ExitCleanupCalls(raisedInBody) == 1

PathSet(ps) == {ps[i].path : i \in 1..Len(ps)}

----------------------------------------------------------------------------
Init ==
    /\ paths = <<>>
    /\ fs = {}
    /\ openFds = {}
    /\ denied = {}
    /\ nextPath = 1
    /\ inScope = FALSE
    /\ scopeCreated = {}
    /\ bodyErr = FALSE
    /\ exitCleanups = 0
    /\ lastOp = "init"
    /\ lastRaised = FALSE
    /\ lastOps = <<>>
    /\ failedAt = 0
    /\ prevPaths = <<>>
    /\ cleaned = {}
    /\ stuck = FALSE
    /\ disturbed = FALSE

\* Paths created in the current with-block; forgotten once the block has
\* been left and another operation has run.
ScopeCreatedAfter(new) ==
    IF inScope THEN scopeCreated \cup new ELSE {}

\* Bookkeeping of an operation that does not run cleanup().
NoCleanupRan ==
    /\ lastOps' = <<>>
    /\ failedAt' = 0
    /\ prevPaths' = paths
    /\ exitCleanups' = 0
    /\ bodyErr' = FALSE
    /\ UNCHANGED <<cleaned, stuck>>

\* Tempfile.mkstemp
Mkstemp(failed) ==
    /\ nextPath <= MaxCreates
    /\ LET fd == LowestFreeFd(openFds)
           h == FileHandle(fd, nextPath)
       IN  /\ paths' = Track(paths, h, failed)
           /\ IF failed
              THEN /\ scopeCreated' = ScopeCreatedAfter({})
                   /\ UNCHANGED <<fs, openFds, nextPath>>
              ELSE /\ fs' = fs \cup {nextPath}
                   /\ openFds' = openFds \cup {fd}
                   /\ nextPath' = nextPath + 1
                   /\ scopeCreated' = ScopeCreatedAfter({nextPath})
    /\ lastOp' = "mkstemp"
    /\ lastRaised' = failed
    /\ NoCleanupRan
    /\ UNCHANGED <<denied, inScope, disturbed>>

\* Tempfile.mkdtemp
Mkdtemp(failed) ==
    /\ nextPath <= MaxCreates
    /\ LET h == DirHandle(nextPath)
       IN  /\ paths' = Track(paths, h, failed)
           /\ IF failed
              THEN /\ scopeCreated' = ScopeCreatedAfter({})
                   /\ UNCHANGED <<fs, nextPath>>
              ELSE /\ fs' = fs \cup {nextPath}
                   /\ nextPath' = nextPath + 1
                   /\ scopeCreated' = ScopeCreatedAfter({nextPath})
    /\ lastOp' = "mkdtemp"
    /\ lastRaised' = failed
    /\ NoCleanupRan
    /\ UNCHANGED <<openFds, denied, inScope, disturbed>>

\* The body of Tempfile.cleanup, shared by the explicit call and __exit__.
RunCleanup ==
    LET r == CleanupLoop(paths, 1, fs, openFds, denied, <<>>)
        raised == r.failedAt # 0
    IN  /\ fs' = r.fs
        /\ openFds' = r.fds
        /\ denied' = denied
        /\ lastOps' = r.ops
        /\ failedAt' = r.failedAt
        /\ lastRaised' = raised
        /\ prevPaths' = paths
        /\ paths' = PathsAfterCleanup(paths, raised)
        /\ cleaned' = IF raised THEN cleaned ELSE cleaned \cup PathSet(paths)
        /\ stuck' = (stuck \/ r.failedAt > 1)

\* Tempfile.cleanup
Cleanup ==
    /\ RunCleanup
    /\ lastOp' = "cleanup"
    /\ scopeCreated' = ScopeCreatedAfter({})
    /\ exitCleanups' = 0
    /\ bodyErr' = FALSE
    /\ UNCHANGED <<nextPath, inScope, disturbed>>

\* Tempfile.__enter__
Enter ==
    /\ ~inScope
    /\ inScope' = TRUE
    /\ scopeCreated' = {}
    /\ bodyErr' = FALSE
    /\ exitCleanups' = 0
    /\ lastOp' = "enter"
    /\ lastRaised' = FALSE
    /\ lastOps' = <<>>
    /\ failedAt' = 0
    /\ prevPaths' = paths
    /\ UNCHANGED <<paths, fs, openFds, denied, nextPath, cleaned, stuck, disturbed>>

\* Tempfile.__exit__, reached when the with-body ends or raises.
Exit(raisedInBody) ==
    /\ inScope
    /\ inScope' = FALSE
    /\ bodyErr' = raisedInBody
    /\ exitCleanups' = ExitCleanupCalls(raisedInBody)
    /\ IF ExitCleanupCalls(raisedInBody) > 0
       THEN RunCleanup
       ELSE /\ lastOps' = <<>>
            /\ failedAt' = 0
            /\ lastRaised' = FALSE
            /\ prevPaths' = paths
            /\ UNCHANGED <<paths, fs, openFds, denied, cleaned, stuck>>
    /\ lastOp' = "exit"
    /\ UNCHANGED <<nextPath, scopeCreated, disturbed>>

----------------------------------------------------------------------------
\* The environment of the manager.

EnvStep ==
    /\ lastOp' = "env"
    /\ lastRaised' = FALSE
    /\ lastOps' = <<>>
    /\ failedAt' = 0
    /\ prevPaths' = paths
    /\ disturbed' = TRUE
    /\ scopeCreated' = ScopeCreatedAfter({})
    /\ exitCleanups' = 0
    /\ bodyErr' = FALSE
    /\ UNCHANGED <<paths, nextPath, inScope, cleaned, stuck>>

\* The caller closes a descriptor it got from mkstemp.
CallerClose(fd) ==
    /\ fd \in openFds
    /\ openFds' = openFds \ {fd}
    /\ UNCHANGED <<fs, denied>>
    /\ EnvStep

\* Somebody else removes a tracked path.
ExternalRemove(p) ==
    /\ p \in fs
    /\ fs' = fs \ {p}
    /\ denied' = denied \ {p}
    /\ UNCHANGED openFds
    /\ EnvStep

\* Removal of a path becomes refused (permission revoked) ...
RevokePermission(p) ==
    /\ p \in fs \ denied
    /\ denied' = denied \cup {p}
    /\ UNCHANGED <<fs, openFds>>
    /\ EnvStep

\* ... or allowed again.
GrantPermission(p) ==
    /\ p \in denied
    /\ denied' = denied \ {p}
    /\ UNCHANGED <<fs, openFds>>
    /\ EnvStep

Next ==
    \/ \E failed \in BOOLEAN : Mkstemp(failed)
    \/ \E failed \in BOOLEAN : Mkdtemp(failed)
    \/ Cleanup
    \/ Enter
    \/ \E raisedInBody \in BOOLEAN : Exit(raisedInBody)
    \/ \E p \in fs : RevokePermission(p)
    \/ \E p \in denied : GrantPermission(p)
    \/ \E p \in fs : ExternalRemove(p)
    \/ \E fd \in openFds : CallerClose(fd)

Spec == Init /\ [][Next]_vars

----------------------------------------------------------------------------
\* Vocabulary of the properties.

CreateOps == {"mkstemp", "mkdtemp"}
CleanupOps == {"cleanup", "exit"}

\* Every temp path the manager has created so far.
Created == 1..(nextPath - 1)

\* Paths removed by the syscalls of the last cleanup().
RemovedByLastCleanup ==
    {lastOps[k].arg : k \in {n \in 1..Len(lastOps) : lastOps[n].op \in {"unlink", "rmtree"}}}

\* The syscalls a cleanup of ps issues when nothing fails: handles in list
\* order, close before unlink for a file, rmtree for a directory.
HandleOps(h, i) ==
    IF h.kind = "file"
    THEN <<Syscall("close", h.fd, i), Syscall("unlink", h.path, i)>>
    ELSE <<Syscall("rmtree", h.path, i)>>

RECURSIVE ExpectedOps(_, _)
ExpectedOps(ps, i) ==
    IF i > Len(ps) THEN <<>> ELSE HandleOps(ps[i], i) \o ExpectedOps(ps, i + 1)

IsPrefix(s, t) == Len(s) <= Len(t) /\ SubSeq(t, 1, Len(s)) = s

HasFileAndDir(ps) ==
    \E i, j \in 1..Len(ps) : ps[i].kind = "file" /\ ps[j].kind = "dir"

TypeOK ==
    /\ paths \in Seq([kind : {"file", "dir"}, fd : 0..(MaxCreates + 1), path : 1..(MaxCreates + 1)])
    /\ fs \subseteq Created
    /\ denied \subseteq fs
    /\ inScope \in BOOLEAN
    /\ failedAt \in 0..Len(prevPaths)

----------------------------------------------------------------------------
\* C1: after any number of mkstemp / mkdtemp calls, with no interference
\* from the environment, every tracked path exists (and every tracked
\* descriptor is open) up to the cleanup() call; once cleanup() has run it
\* has returned normally, no path the manager created exists and self.paths
\* is empty.
C1_CreateThenCleanup ==
    ~disturbed =>
        /\ \A i \in 1..Len(paths) :
              /\ paths[i].path \in fs
              /\ IsTuple(paths[i]) => paths[i].fd \in openFds
        /\ lastOp = "cleanup" =>
              /\ ~lastRaised
              /\ paths = <<>>
              /\ PathSet(prevPaths) \cap fs = {}
              /\ Created \cap fs = {}

C1_Witness ==
    /\ ~disturbed
    /\ lastOp = "cleanup"
    /\ Len(prevPaths) >= 3
    /\ HasFileAndDir(prevPaths)
    /\ paths = <<>>

C3_TrackedEmptyAfterCleanup ==
    lastOp \in CleanupOps => paths = <<>>

\* C4: a create call whose tempfile call raised leaves self.paths exactly as
\* it was before the call.
C4_FailedCreateTracksNothing ==
    (lastOp \in CreateOps /\ lastRaised) => paths = prevPaths

C4_Witness ==
    /\ lastOp \in CreateOps
    /\ lastRaised
    /\ Len(paths) >= 1

\* C5: cleanup() with nothing tracked does not raise, issues no syscall,
\* changes neither the filesystem nor the open descriptors, and leaves
\* self.paths empty.
C5_CleanupOfEmptyIsNoOp ==
    [][(lastOp' = "cleanup" /\ paths = <<>>) =>
          /\ ~lastRaised'
          /\ lastOps' = <<>>
          /\ fs' = fs
          /\ openFds' = openFds
          /\ paths' = <<>>]_vars

C5_Witness ==
    /\ lastOp = "cleanup"
    /\ prevPaths = <<>>
    /\ paths = <<>>
    /\ ~lastRaised
    /\ cleaned # {}

\* C6: after a cleanup() that returned normally no handle from before it is
\* tracked again; a create call on the emptied manager leaves exactly the
\* new handle tracked; and a cleanup() that returns normally removes exactly
\* the paths that were tracked when it was called.
C6_Reusable ==
    /\ PathSet(paths) \cap cleaned = {}
    /\ (lastOp \in CreateOps /\ ~lastRaised /\ prevPaths = <<>>) =>
          /\ Len(paths) = 1
          /\ paths[1].path = nextPath - 1
          /\ paths[1].path \in fs
    /\ (lastOp \in CleanupOps /\ ~lastRaised) =>
          RemovedByLastCleanup = PathSet(prevPaths)

C6_Witness ==
    /\ lastOp = "cleanup"
    /\ ~lastRaised
    /\ prevPaths # <<>>
    /\ cleaned \ PathSet(prevPaths) # {}
    /\ fs = {}

\* C7: self.paths starts empty; a step either leaves it alone, or is a
\* successful create that appends one handle at the end, or is a cleanup
\* that empties it; every successful create appends; and the list is in
\* creation order.
C7_Step ==
    /\ \/ paths' = paths
       \/ /\ lastOp' \in CreateOps
          /\ ~lastRaised'
          /\ Len(paths') = Len(paths) + 1
          /\ SubSeq(paths', 1, Len(paths)) = paths
       \/ /\ lastOp' \in CleanupOps
          /\ paths' = <<>>
    /\ (lastOp' \in CreateOps /\ ~lastRaised') =>
          /\ Len(paths') = Len(paths) + 1
          /\ paths'[Len(paths')].path = nextPath

C7_CreationOrder ==
    \A i, j \in 1..Len(paths) : i < j => paths[i].path < paths[j].path

C7_TrackedLifecycle ==
    /\ paths = <<>>
    /\ [][C7_Step]_vars
    /\ []C7_CreationOrder

C7_Witness ==
    /\ Len(paths) >= 2
    /\ cleaned # {}
    /\ lastOp \in CreateOps

\* C8: the syscalls a cleanup() completes are an initial part of: for each
\* tracked handle in list order, close then unlink for a file, rmtree for
\* a directory; and all of them when it returns normally.
C8_CleanupOrder ==
    lastOp \in CleanupOps =>
        /\ IsPrefix(lastOps, ExpectedOps(prevPaths, 1))
        /\ ~lastRaised => lastOps = ExpectedOps(prevPaths, 1)

C8_Witness ==
    /\ lastOp \in CleanupOps
    /\ ~lastRaised
    /\ Len(prevPaths) >= 3
    /\ HasFileAndDir(prevPaths)
    /\ Len(lastOps) > Len(prevPaths)

\* C9: when cleanup() raises, it raised at a tracked position k, every
\* handle before k was removed, no syscall was made for a handle after k,
\* the handles after k are on the filesystem exactly as before, and
\* self.paths is not empty.
C9_FailFast ==
    [][(lastOp' \in CleanupOps /\ lastRaised') =>
          /\ failedAt' \in 1..Len(paths)
          /\ \A j \in 1..(failedAt' - 1) : paths[j].path \notin fs'
          /\ \A k \in 1..Len(lastOps') : lastOps'[k].idx <= failedAt'
          /\ \A j \in (failedAt' + 1)..Len(paths) :
                (paths[j].path \in fs') = (paths[j].path \in fs)
          /\ paths' # <<>>]_vars

C9_Witness ==
    /\ lastOp \in CleanupOps
    /\ lastRaised
    /\ failedAt = 2
    /\ Len(paths) >= 3
    /\ paths[1].path \notin fs
    /\ paths[3].path \in fs
    /\ paths[3].path \notin denied
    /\ IsTuple(paths[3]) => paths[3].fd \in openFds

\* C10: a cleanup() that raised left self.paths as it was; and once a
\* cleanup() has raised after removing a handle, self.paths is never empty
\* again and every later cleanup() raises at the first handle and removes
\* nothing.
C10_FailedLeavesList ==
    (lastOp \in CleanupOps /\ lastRaised) => paths = prevPaths

C10_StuckStep ==
    (stuck /\ lastOp' \in CleanupOps) =>
        /\ lastRaised'
        /\ failedAt' = 1
        /\ fs' = fs
        /\ paths' = paths

C10_FailedCleanupSticks ==
    /\ [](C10_FailedLeavesList /\ (stuck => paths # <<>>))
    /\ [][C10_StuckStep]_vars

C10_Witness ==
    /\ stuck
    /\ lastOp \in CleanupOps
    /\ lastRaised
    /\ failedAt = 1
    /\ paths[1].path \notin fs
    /\ \E j \in 2..Len(paths) : paths[j].path \in fs /\ paths[j].path \notin denied

\* A tracked handle cleanup() cannot process: a file whose descriptor is
\* not open, or a path that is gone.
ClosedFd(i) == IsTuple(paths[i]) /\ paths[i].fd \notin openFds
Broken(i) == ClosedFd(i) \/ paths[i].path \notin fs

\* The handles before i are all removable: none is broken, none is refused
\* removal, and no two of them are files with the same descriptor number.
RemovableBefore(i) ==
    /\ \A j \in 1..(i - 1) : ~Broken(j) /\ paths[j].path \notin denied
    /\ \A a, b \in 1..(i - 1) :
          (a < b /\ IsTuple(paths[a]) /\ IsTuple(paths[b])) => paths[a].fd # paths[b].fd

C11_Step ==
    \A i \in 1..Len(paths) :
        (lastOp' \in CleanupOps /\ Broken(i)) =>
            /\ lastRaised'
            /\ failedAt' \in 1..i
            /\ paths' = paths
            /\ RemovableBefore(i) =>
                  /\ failedAt' = i
                  /\ \A j \in (i + 1)..Len(paths) :
                        (paths[j].path \in fs') = (paths[j].path \in fs)
            /\ (failedAt' = i /\ ClosedFd(i)) =>
                  /\ (paths[i].path \in fs') = (paths[i].path \in fs)
                  /\ \A k \in 1..Len(lastOps') : lastOps'[k].idx # i

\* C11: a cleanup() called while some tracked file has a closed descriptor
\* or some tracked path is gone raises, at that handle or before it, and at
\* that handle when everything before it is removable, leaving the later
\* handles alone; when it raises at a file whose descriptor is closed, no
\* syscall completes for that handle and its file stays as it was.
C11_CleanupNeedsOpenAndExisting ==
    [][C11_Step]_vars

C11_Witness ==
    /\ lastOp \in CleanupOps
    /\ lastRaised
    /\ failedAt = 2
    /\ Len(paths) >= 3
    /\ IsTuple(paths[2])
    /\ paths[2].fd \notin openFds
    /\ \A k \in 1..Len(lastOps) : lastOps[k].idx # 2
    /\ paths[1].path \notin fs
    /\ paths[2].path \in fs
    /\ paths[2].path \notin denied
    /\ paths[3].path \in fs
    /\ paths[3].path \notin denied
====
